---------------------------- MODULE Spec2Model ----------------------------
(***************************************************************************)
(* Model of facerec (src/src/main.rs): the face store kept in              *)
(* ./face_data.json, the cosine-similarity lookup and the decide-or-enroll *)
(* loop of recognize_face_from_camera.                                     *)
(*                                                                         *)
(* Numbers are IEEE-754 binary32 values, computed as the code computes     *)
(* them (round to nearest, ties to even).  A value is <<m, e>> and stands  *)
(* for m * 2^e with 2^23 <= m < 2^24; <<0, 0>> is 0.0, <<-1, 0>> is NaN    *)
(* and <<-2, 0>> is +infinity.  Only non-negative values occur: the        *)
(* features are pixel bytes divided by 255.  Exponents stay far inside the *)
(* normal range, so subnormals and overflow are not modelled.              *)
(***************************************************************************)
EXTENDS Integers, Sequences, FiniteSets

---------------------------------------------------------------------------
(* binary32 arithmetic *)

Pow2(n) == 2 ^ n

F32Zero == <<0, 0>>
F32NaN == <<-1, 0>>
F32Inf == <<-2, 0>>

IsNaN(x) == x[1] = -1
IsInf(x) == x[1] = -2
IsZero(x) == x[1] = 0

\* number of bits of n > 0
BitLen(n) == CHOOSE k \in 1..31 : Pow2(k - 1) <= n /\ (k = 31 \/ n < Pow2(k))

\* sig * 2^exp, plus (when sticky) a non-zero amount below the last bit of
\* sig, rounded to 24 bits, nearest, ties to even
F32Round(sig, exp, sticky) ==
    IF sig = 0 THEN F32Zero
    ELSE LET nb == BitLen(sig) IN
         IF nb <= 24 THEN <<sig * Pow2(24 - nb), exp - (24 - nb)>>
         ELSE LET k    == nb - 24
                  q    == sig \div Pow2(k)
                  r    == sig % Pow2(k)
                  half == Pow2(k - 1)
                  up   == r > half \/ (r = half /\ (sticky \/ q % 2 = 1))
                  q1   == IF up THEN q + 1 ELSE q
              IN  IF q1 = Pow2(24) THEN <<Pow2(23), exp + k + 1>>
                                   ELSE <<q1, exp + k>>

\* `x as f32` for a small non-negative integer
F32FromInt(n) == F32Round(n, 0, FALSE)

\* a + b
F32Add(a, b) ==
    IF IsNaN(a) \/ IsNaN(b) THEN F32NaN
    ELSE IF IsInf(a) \/ IsInf(b) THEN F32Inf
    ELSE IF IsZero(a) THEN b
    ELSE IF IsZero(b) THEN a
    ELSE LET hi == IF a[2] >= b[2] THEN a ELSE b
             lo == IF a[2] >= b[2] THEN b ELSE a
             d  == hi[2] - lo[2]
         IN  IF d <= 3 THEN F32Round(hi[1] * Pow2(d) + lo[1], lo[2], FALSE)
             ELSE IF d >= 27 THEN hi
             ELSE F32Round(hi[1] * 8 + (lo[1] \div Pow2(d - 3)), hi[2] - 3,
                           lo[1] % Pow2(d - 3) # 0)

\* a * b: the 48-bit product of the two 24-bit significands, in two 24-bit
\* halves built from 12-bit limbs
F32Mul(a, b) ==
    IF IsNaN(a) \/ IsNaN(b) THEN F32NaN
    ELSE IF (IsInf(a) /\ IsZero(b)) \/ (IsZero(a) /\ IsInf(b)) THEN F32NaN
    ELSE IF IsInf(a) \/ IsInf(b) THEN F32Inf
    ELSE IF IsZero(a) \/ IsZero(b) THEN F32Zero
    ELSE LET ah  == a[1] \div 4096
             al  == a[1] % 4096
             bh  == b[1] \div 4096
             bl  == b[1] % 4096
             mid == ah * bl + al * bh
             low == al * bl + (mid % 4096) * 4096
             lo  == low % Pow2(24)
             hi  == ah * bh + (mid \div 4096) + (low \div Pow2(24))
         IN  IF hi >= Pow2(23)
             THEN F32Round(hi * 2 + (lo \div Pow2(23)), a[2] + b[2] + 23,
                           lo % Pow2(23) # 0)
             ELSE F32Round(hi * 4 + (lo \div Pow2(22)), a[2] + b[2] + 22,
                           lo % Pow2(22) # 0)

\* long division: <<quotient bits so far, remainder>> after n more steps
RECURSIVE DivSteps(_, _, _, _)
DivSteps(q, r, den, n) ==
    IF n = 0 THEN <<q, r>>
    ELSE IF 2 * r >= den THEN DivSteps(2 * q + 1, 2 * r - den, den, n - 1)
                         ELSE DivSteps(2 * q, 2 * r, den, n - 1)

\* a / b
F32Div(a, b) ==
    IF IsNaN(a) \/ IsNaN(b) THEN F32NaN
    ELSE IF IsInf(a) THEN (IF IsInf(b) THEN F32NaN ELSE F32Inf)
    ELSE IF IsInf(b) THEN F32Zero
    ELSE IF IsZero(b) THEN (IF IsZero(a) THEN F32NaN ELSE F32Inf)
    ELSE IF IsZero(a) THEN F32Zero
    ELSE LET qr == DivSteps(a[1] \div b[1], a[1] % b[1], b[1], 25)
         IN  F32Round(qr[1], a[2] - b[2] - 25, qr[2] # 0)

\* square root, two bits of the radicand at a time:
\* <<root, remainder>> after the pairs i..25 of n * 2^26 (n < 2^26)
RECURSIVE SqrtSteps(_, _, _, _)
SqrtSteps(root, rem, n, i) ==
    IF i > 25 THEN <<root, rem>>
    ELSE LET pair  == IF i <= 12 THEN (n \div Pow2(2 * (12 - i))) % 4 ELSE 0
             r     == rem * 4 + pair
             trial == root * 4 + 1
         IN  IF r >= trial THEN SqrtSteps(root * 2 + 1, r - trial, n, i + 1)
                           ELSE SqrtSteps(root * 2, r, n, i + 1)

\* a.sqrt()
F32Sqrt(a) ==
    IF IsNaN(a) \/ IsInf(a) \/ IsZero(a) THEN a
    ELSE LET n  == IF a[2] % 2 = 0 THEN a[1] ELSE 2 * a[1]
             e  == IF a[2] % 2 = 0 THEN a[2] ELSE a[2] - 1
             sr == SqrtSteps(0, 0, n, 0)
         IN  F32Round(sr[1], (e - 26) \div 2, sr[2] # 0)

\* a > b (false when either is NaN)
F32Gt(a, b) ==
    IF IsNaN(a) \/ IsNaN(b) THEN FALSE
    ELSE IF IsInf(a) THEN ~IsInf(b)
    ELSE IF IsInf(b) THEN FALSE
    ELSE IF IsZero(a) THEN FALSE
    ELSE IF IsZero(b) THEN TRUE
    ELSE a[2] > b[2] \/ (a[2] = b[2] /\ a[1] > b[1])


---------------------------------------------------------------------------
(* FaceEntry and the feature extractor *)

\* the bytes of a face region after the resize (3 pixels stand for the
\* 100 x 100 of the code); the extractor returns one float per byte
FaceRegions == { <<0, 0, 0>>, <<153, 153, 0>>, <<51, 51, 0>>,
                 <<204, 255, 153>>, <<204, 255, 102>>, <<0, 0, 255>> }

\* resized.data_bytes().iter().map(|&x| x as f32 / 255.0).collect()
extract_features(face) ==
    [i \in 1..Len(face) |-> F32Div(F32FromInt(face[i]), F32FromInt(255))]

Features == [face \in FaceRegions |-> extract_features(face)]

\* embeddings of other lengths, as a file written by another build holds
\* them: inputs of find_existing_face only, the loop never produces them
ShortRegions == { <<255, 255>>, <<204>> }

FeatureVectors ==
    { extract_features(face) : face \in FaceRegions \cup ShortRegions }

\* the values Uuid::new_v4().to_string() returns, in the order it returns
\* them: the generator is taken by its contract, it never repeats a value
Uuids == << "uuid-1", "uuid-2", "uuid-3", "uuid-4", "uuid-5", "uuid-6",
            "uuid-7", "uuid-8" >>

new_v4(n) == Uuids[n + 1]

\* mutant: the decision is not stored, every entry is a denial
FaceEntry_new_denied(feats, allowed, id) ==
    [id |-> id, features |-> feats, allowed |-> FALSE]

\* mutant: the generated uuid is not used, every entry gets the same id
FaceEntry_new_same_id(feats, allowed, id) ==
    [id |-> "uuid-1", features |-> feats, allowed |-> allowed]

\* FaceEntry::new(features, allowed), id the generated uuid
FaceEntry_new(feats, allowed, id) ==
    [id |-> id, features |-> feats, allowed |-> allowed]

---------------------------------------------------------------------------
(* The backing file: its text is a sequence of JSON tokens (the white     *)
(* space of the pretty printer is left out, the parser skips it).         *)

Tok(k, s) == [k |-> k, s |-> s]
P(s) == Tok("punct", s)
Str(s) == Tok("str", s)
Num(s) == Tok("num", s)
Lit(s) == Tok("lit", s)

\* what a number text of the file means: numerator and denominator
Decimals == [s \in {"0.0", "0.2", "0.4", "0.6", "0.8", "1.0"} |->
               CASE s = "0.0" -> <<0, 10>>
                 [] s = "0.2" -> <<2, 10>>
                 [] s = "0.4" -> <<4, 10>>
                 [] s = "0.6" -> <<6, 10>>
                 [] s = "0.8" -> <<8, 10>>
                 [] s = "1.0" -> <<10, 10>>]

\* serde_json reading a number as f32: the nearest binary32 value
ParseF32(s) == F32Div(F32FromInt(Decimals[s][1]), F32FromInt(Decimals[s][2]))

F32OfText == [s \in DOMAIN Decimals |-> ParseF32(s)]

\* serde_json (ryu) writing an f32: the shortest decimal text that reads
\* back as the same value
FormatF32(x) == CHOOSE s \in DOMAIN Decimals : F32OfText[s] = x

F32Values == UNION { { v[i] : i \in 1..Len(v) } : v \in FeatureVectors }

TextOfF32 == [x \in F32Values |-> FormatF32(x)]

FormatBool(b) == IF b THEN "true" ELSE "false"

RECURSIVE JsonNumbers(_)
JsonNumbers(v) ==
    IF v = <<>> THEN <<>>
    ELSE IF Len(v) = 1 THEN << Num(TextOfF32[v[1]]) >>
    ELSE << Num(TextOfF32[v[1]]), P(",") >> \o JsonNumbers(Tail(v))

\* one FaceEntry, fields in declaration order
JsonEntry(e) ==
    << P("{"), Str("id"), P(":"), Str(e.id), P(","),
       Str("features"), P(":"), P("[") >> \o JsonNumbers(e.features) \o
    << P("]"), P(","), Str("allowed"), P(":"), Lit(FormatBool(e.allowed)),
       P("}") >>

RECURSIVE JsonEntries(_)
JsonEntries(data) ==
    IF data = <<>> THEN <<>>
    ELSE IF Len(data) = 1 THEN JsonEntry(data[1])
    ELSE JsonEntry(data[1]) \o << P(",") >> \o JsonEntries(Tail(data))

\* serde_json::to_string_pretty(&data)
to_string_pretty(data) == << P("[") >> \o JsonEntries(data) \o << P("]") >>

At(toks, i) == IF i <= Len(toks) THEN toks[i] ELSE Tok("eof", "")

Fail == [ok |-> FALSE, val |-> <<>>, next |-> 0]

\* the numbers of an array from token i on, up to its "]"
RECURSIVE ParseNumbers(_, _, _)
ParseNumbers(toks, i, acc) ==
    IF At(toks, i).k = "num" /\ At(toks, i).s \in DOMAIN Decimals
    THEN IF At(toks, i + 1) = P(",")
         THEN ParseNumbers(toks, i + 2, Append(acc, F32OfText[At(toks, i).s]))
         ELSE IF At(toks, i + 1) = P("]")
              THEN [ok |-> TRUE, val |-> Append(acc, F32OfText[At(toks, i).s]),
                    next |-> i + 2]
              ELSE Fail
    ELSE Fail

\* the value of the "features" field, from the token after its "["
ParseFeatures(toks, i) ==
    IF At(toks, i) = P("]") THEN [ok |-> TRUE, val |-> <<>>, next |-> i + 1]
    ELSE ParseNumbers(toks, i, <<>>)

\* the rest of a FaceEntry that starts at token i, its features being nums
ParseAllowed(toks, i, nums) ==
    IF /\ nums.ok
       /\ At(toks, nums.next) = P(",")
       /\ At(toks, nums.next + 1) = Str("allowed")
       /\ At(toks, nums.next + 2) = P(":")
       /\ At(toks, nums.next + 3).k = "lit"
       /\ At(toks, nums.next + 3).s \in {"true", "false"}
       /\ At(toks, nums.next + 4) = P("}")
    THEN [ok |-> TRUE,
          val |-> [id |-> At(toks, i + 3).s, features |-> nums.val,
                   allowed |-> At(toks, nums.next + 3).s = "true"],
          next |-> nums.next + 5]
    ELSE Fail

\* a FaceEntry from token i on
ParseEntry(toks, i) ==
    IF /\ At(toks, i) = P("{")
       /\ At(toks, i + 1) = Str("id") /\ At(toks, i + 2) = P(":")
       /\ At(toks, i + 3).k = "str" /\ At(toks, i + 4) = P(",")
       /\ At(toks, i + 5) = Str("features") /\ At(toks, i + 6) = P(":")
       /\ At(toks, i + 7) = P("[")
    THEN ParseAllowed(toks, i, ParseFeatures(toks, i + 8))
    ELSE Fail

\* the entries of the top-level array from token i on; the "]" after the
\* last one ends the text
RECURSIVE ParseEntries(_, _, _)
ParseRest(toks, acc, e) ==
    IF ~e.ok THEN Fail
    ELSE IF At(toks, e.next) = P(",")
         THEN ParseEntries(toks, e.next + 1, Append(acc, e.val))
         ELSE IF At(toks, e.next) = P("]") /\ e.next = Len(toks)
              THEN [ok |-> TRUE, val |-> Append(acc, e.val), next |-> e.next + 1]
              ELSE Fail

ParseEntries(toks, i, acc) == ParseRest(toks, acc, ParseEntry(toks, i))

\* serde_json::from_str::<Vec<FaceEntry>>(&content)
from_str(content) ==
    IF At(content, 1) # P("[") THEN Fail
    ELSE IF At(content, 2) = P("]")
         THEN (IF Len(content) = 2
               THEN [ok |-> TRUE, val |-> <<>>, next |-> 3] ELSE Fail)
         ELSE ParseEntries(content, 2, <<>>)

\* .unwrap_or_else(|_| vec![])
unwrap_or_else(parsed) == IF parsed.ok THEN parsed.val ELSE <<>>

\* load_face_data() on a file that can be opened
load_face_data(f) == unwrap_or_else(from_str(f.content))

\* mutant: the entry is put in front of the loaded ones
save_face_data_in_front(f, entry) ==
    to_string_pretty(<< entry >> \o load_face_data(f))

\* mutant: the entry is pushed twice
save_face_data_twice(f, entry) ==
    to_string_pretty(Append(Append(load_face_data(f), entry), entry))

\* mutant: a text that does not parse is kept, the new array is written
\* behind it
save_face_data_behind_text(f, entry) ==
    IF from_str(f.content).ok
    THEN to_string_pretty(Append(load_face_data(f), entry))
    ELSE f.content \o to_string_pretty(<< entry >>)

\* the text save_face_data(entry) writes: everything loaded, then the entry
save_face_data(f, entry) == to_string_pretty(Append(load_face_data(f), entry))

---------------------------------------------------------------------------
(* Matcher *)

\* v1.iter().zip(v2).map(|(a, b)| a * b).sum(): the sum over the first n
\* pairs, left to right from 0.0; zip stops at the shorter vector
RECURSIVE DotSum(_, _, _)
DotSum(v1, v2, n) ==
    IF n = 0 THEN F32Zero
    ELSE F32Add(DotSum(v1, v2, n - 1), F32Mul(v1[n], v2[n]))

Min(a, b) == IF a <= b THEN a ELSE b

dot(v1, v2) == DotSum(v1, v2, Min(Len(v1), Len(v2)))

\* v.iter().map(|a| a * a).sum::<f32>().sqrt()
mag(v) == F32Sqrt(DotSum(v, v, Len(v)))

\* cosine_similarity(v1, v2) = dot / (mag1 * mag2)
cosine_similarity(v1, v2) == F32Div(dot(v1, v2), F32Mul(mag(v1), mag(v2)))

\* the literal 0.9 as f32: the binary32 value nearest to 9/10
Threshold == F32Div(F32FromInt(9), F32FromInt(10))

\* cosine_similarity over the vectors of the model, computed once
Similarity ==
    [v1 \in FeatureVectors |->
        [v2 \in FeatureVectors |-> cosine_similarity(v1, v2)]]

\* mutant: >= in place of >
IsMatchInclusive(sim) == F32Gt(sim, Threshold) \/ sim = Threshold

\* mutant: the threshold is 0.95
IsMatchStricter(sim) == F32Gt(sim, F32Div(F32FromInt(19), F32FromInt(20)))

\* the closure of find: cosine_similarity(&face.features, features) > 0.9
IsMatch(sim) == F32Gt(sim, Threshold)

Matches == 
    [v1 \in FeatureVectors |->
        [v2 \in FeatureVectors |-> IsMatch(Similarity[v1][v2])]]

\* mutant: the last entry that matches, not the first
RECURSIVE FindLastFrom(_, _, _)
FindLastFrom(known_faces, feats, i) ==
    IF i > Len(known_faces) THEN <<>>
    ELSE IF FindLastFrom(known_faces, feats, i + 1) # <<>>
         THEN FindLastFrom(known_faces, feats, i + 1)
         ELSE IF Matches[known_faces[i].features][feats]
              THEN << known_faces[i] >> ELSE <<>>

\* known_faces.iter().find(..).cloned() from entry i on: <<>> is None,
\* <<face>> is Some(face)
RECURSIVE FindFrom(_, _, _)
FindFrom(known_faces, feats, i) ==
    IF i > Len(known_faces) THEN <<>>
    ELSE IF Matches[known_faces[i].features][feats]
         THEN << known_faces[i] >>
         ELSE FindFrom(known_faces, feats, i + 1)

\* find_existing_face(features) on a file that can be opened
find_existing_face(f, feats) == FindFrom(load_face_data(f), feats, 1)

---------------------------------------------------------------------------
(* The decision prompt *)

\* what read_line can put into response: the line typed, with its newline;
\* the empty string is end of input
Responses == { <<"j", "\n">>, <<"J", "\n">>, <<" ", "j", " ", "\n">>,
               <<"n", "\n">>, <<"j", "a", "\n">>, <<"\n">>, <<>> }

IsWhitespace(c) == c \in {" ", "\t", "\n", "\r"}

RECURSIVE TrimStart(_)
TrimStart(s) ==
    IF s # <<>> /\ IsWhitespace(Head(s)) THEN TrimStart(Tail(s)) ELSE s

RECURSIVE TrimEnd(_)
TrimEnd(s) ==
    IF s # <<>> /\ IsWhitespace(s[Len(s)])
    THEN TrimEnd(SubSeq(s, 1, Len(s) - 1)) ELSE s

trim(s) == TrimEnd(TrimStart(s))

LowerChar(c) ==
    CASE c = "J" -> "j" [] c = "N" -> "n" [] c = "A" -> "a" [] OTHER -> c

to_lowercase(s) == [i \in 1..Len(s) |-> LowerChar(s[i])]

\* mutant: a line that begins with j is taken for the affirmative answer
AffirmativeStartsWith(line) ==
    to_lowercase(trim(line)) # <<>> /\ to_lowercase(trim(line))[1] = "j"

\* access_allowed = response.trim().to_lowercase() == "j"
Affirmative(line) == to_lowercase(trim(line)) = <<"j">>

---------------------------------------------------------------------------
(* The program *)

VARIABLES
    file,           \* ./face_data.json: [exists, content]
    pc,             \* "loop": between two faces; "prompt": blocked in
                    \* read_line; "panicked"; "exited": left by ESC
    features,       \* the embedding of the face being handled (or last handled)
    outcome,        \* "none", "Matched" or "Unmatched" for that face
    existing_face,  \* what find_existing_face returned: <<>> or <<face>>
    access_allowed, \* the decision for that face
    uuids,          \* how many ids Uuid::new_v4 has returned so far
    response,       \* the line read_line put into `response` (<<>>: none)
    readable,       \* open(DATABASE) and read_to_string succeed on the file
    aborted,        \* the ids of the entries whose save_face_data panicked
    savers          \* two processes in save_face_data at once (SpecSave)

vars == <<file, pc, features, outcome, existing_face, access_allowed, uuids,
          response, readable, aborted, savers>>

\* bounds of the model
MaxFaces == 2
MaxUuids == 3
MaxShortWrite == 2

Absent == [exists |-> FALSE, content |-> <<>>]
Present(content) == [exists |-> TRUE, content |-> content]

\* the file when the program is first started: not there, empty, an empty
\* array, or JSON of another shape
InitFiles == { Absent, Present(<<>>), Present(<< P("["), P("]") >>),
               Present(<< P("{"), P("}") >>) }

\* no face is being handled
Idle ==
    /\ features = <<>>
    /\ outcome = "none"
    /\ existing_face = <<>>
    /\ access_allowed = TRUE
    /\ response = <<>>

Init ==
    /\ file \in InitFiles
    /\ pc = "loop"
    /\ Idle
    /\ uuids = 0
    /\ readable = TRUE
    /\ aborted = {}
    /\ savers = <<>>

\* a panic ends the process: its locals are gone, the file stays
Panic ==
    /\ pc' = "panicked"
    /\ features' = <<>>
    /\ outcome' = "none"
    /\ existing_face' = <<>>
    /\ access_allowed' = TRUE
    /\ response' = <<>>

\* open and read_to_string succeed: the file is there and can be read
CanLoad == file.exists /\ readable

\* mutant: a file that cannot be opened or read is taken for an empty store
LookupAsEmpty(face) ==
    /\ pc = "loop"
    /\ ~CanLoad
    /\ uuids < MaxUuids
    /\ features' = Features[face]
    /\ existing_face' = <<>>
    /\ access_allowed' = TRUE
    /\ outcome' = "Unmatched"
    /\ pc' = "prompt"
    /\ response' = <<>>
    /\ UNCHANGED <<file, uuids, readable, aborted, savers>>

\* a face is detected and the file cannot be opened or read:
\* load_face_data panics
LookupPanics(face) ==
    /\ pc = "loop"
    /\ ~CanLoad
    /\ Panic
    /\ UNCHANGED <<file, uuids, readable, aborted, savers>>

\* mutant: the matched path saves the entry it found
MatchedSaving(face) ==
    /\ pc = "loop"
    /\ CanLoad
    /\ \E found \in { find_existing_face(file, Features[face]) } :
          /\ found # <<>>
          /\ features' = Features[face]
          /\ existing_face' = found
          /\ access_allowed' = found[1].allowed
          /\ file' = Present(save_face_data(file, found[1]))
    /\ outcome' = "Matched"
    /\ pc' = "loop"
    /\ response' = <<>>
    /\ UNCHANGED <<uuids, readable, aborted, savers>>

\* a face is detected and find_existing_face returns Some(existing_face)
Matched(face) ==
    /\ pc = "loop"
    /\ CanLoad
    /\ \E found \in { find_existing_face(file, Features[face]) } :
          /\ found # <<>>
          /\ features' = Features[face]
          /\ existing_face' = found
          /\ access_allowed' = found[1].allowed
    /\ outcome' = "Matched"
    /\ pc' = "loop"
    /\ response' = <<>>
    /\ UNCHANGED <<file, uuids, readable, aborted, savers>>

\* a face is detected and find_existing_face returns None: the prompt is
\* printed and the loop blocks in read_line
Unmatched(face) ==
    /\ pc = "loop"
    /\ CanLoad
    /\ Len(load_face_data(file)) < MaxFaces
    /\ uuids < MaxUuids
    /\ find_existing_face(file, Features[face]) = <<>>
    /\ features' = Features[face]
    /\ existing_face' = <<>>
    /\ access_allowed' = TRUE
    /\ outcome' = "Unmatched"
    /\ pc' = "prompt"
    /\ response' = <<>>
    /\ UNCHANGED <<file, uuids, readable, aborted, savers>>

\* the line arrives; the entry is built and save_face_data writes the file
Enroll(line) ==
    /\ pc = "prompt"
    /\ CanLoad
    /\ response' = line
    /\ access_allowed' = Affirmative(line)
    /\ uuids' = uuids + 1
    /\ file' = Present(save_face_data(file,
                  FaceEntry_new(features, access_allowed', new_v4(uuids))))
    /\ pc' = "loop"
    /\ UNCHANGED <<features, outcome, existing_face, readable, aborted, savers>>

\* as Enroll, but the file cannot be opened or read any more: the
\* load_face_data of save_face_data panics
EnrollLoadFails(line) ==
    /\ pc = "prompt"
    /\ ~CanLoad
    /\ uuids' = uuids + 1
    /\ aborted' = aborted \cup { new_v4(uuids) }
    /\ Panic
    /\ UNCHANGED <<file, readable, savers>>

\* as Enroll, but File::create fails: the panic leaves the file as it was
EnrollCreateFails(line) ==
    /\ pc = "prompt"
    /\ CanLoad
    /\ uuids' = uuids + 1
    /\ aborted' = aborted \cup { new_v4(uuids) }
    /\ Panic
    /\ UNCHANGED <<file, readable, savers>>

\* mutant: the whole text reaches the file before write_all reports failure
WrittenInFull(json_data, k, atEnd) == Len(json_data)

\* how many tokens a failed write_all has put into the file: the first k,
\* or all but the last one
Written(json_data, k, atEnd) ==
    IF atEnd THEN Len(json_data) - 1 ELSE k

\* a failed write differs by the line only in the decision it was writing:
\* one line of each decision stands for the others
OneOfEach == { <<"j", "\n">>, <<"n", "\n">> }

\* as Enroll, but write_all fails after File::create has truncated the file
\* and a part of the text has been written
EnrollWriteFails(line, k, atEnd) ==
    /\ pc = "prompt"
    /\ CanLoad
    /\ uuids' = uuids + 1
    /\ aborted' = aborted \cup { new_v4(uuids) }
    /\ \E json_data \in { save_face_data(file,
              FaceEntry_new(features, Affirmative(line), new_v4(uuids))) } :
          \E n \in { Written(json_data, k, atEnd) } :
             /\ atEnd => k = 0
             /\ n \in 0..Len(json_data)
             /\ file' = Present(SubSeq(json_data, 1, n))
    /\ Panic
    /\ UNCHANGED <<readable, savers>>

\* the environment: the file stops being readable (its permissions, the
\* disk, bytes that are not UTF-8), or becomes readable again
ReadFault ==
    /\ pc \in {"loop", "prompt"}
    /\ file.exists
    /\ readable' = ~readable
    /\ UNCHANGED <<file, pc, features, outcome, existing_face, access_allowed,
                   uuids, response, aborted, savers>>

\* mutant: ESC is also seen while the loop waits for the line
QuitAnywhere ==
    /\ pc \in {"loop", "prompt"}
    /\ pc' = "exited"
    /\ features' = <<>>
    /\ outcome' = "none"
    /\ existing_face' = <<>>
    /\ access_allowed' = TRUE
    /\ response' = <<>>
    /\ UNCHANGED <<file, uuids, readable, aborted, savers>>

\* ESC ends the loop and the process
Quit ==
    /\ pc = "loop"
    /\ pc' = "exited"
    /\ features' = <<>>
    /\ outcome' = "none"
    /\ existing_face' = <<>>
    /\ access_allowed' = TRUE
    /\ response' = <<>>
    /\ UNCHANGED <<file, uuids, readable, aborted, savers>>

\* main(): the program is started again
Main ==
    /\ pc \in {"panicked", "exited"}
    /\ pc' = "loop"
    /\ UNCHANGED <<file, features, outcome, existing_face, access_allowed,
                   uuids, response, readable, aborted, savers>>

Next ==
    \/ \E face \in FaceRegions : LookupPanics(face)
    \/ \E face \in FaceRegions : Matched(face)
    \/ \E face \in FaceRegions : Unmatched(face)
    \/ \E line \in Responses : Enroll(line)
    \/ \E line \in Responses : EnrollLoadFails(line)
    \/ \E line \in Responses : EnrollCreateFails(line)
    \/ \E line \in OneOfEach, k \in 0..MaxShortWrite, atEnd \in BOOLEAN :
          EnrollWriteFails(line, k, atEnd)
    \/ ReadFault
    \/ Quit
    \/ Main

Spec == Init /\ [][Next]_vars

\* read_line returns: a line (or end of input) arrives and the rest of the
\* else branch runs, to the end of save_face_data or to its panic
Respond ==
    \/ \E line \in Responses : EnrollLoadFails(line)
    \/ \E line \in Responses : EnrollCreateFails(line)
    \/ \E line \in Responses : Enroll(line)
    \/ \E line \in OneOfEach, k \in 0..MaxShortWrite, atEnd \in BOOLEAN :
          EnrollWriteFails(line, k, atEnd)

\* the program with somebody at the keyboard: a read_line that waits is
\* answered in the end
SpecLive == Init /\ [][Next]_vars /\ WF_vars(Respond)

---------------------------------------------------------------------------
(* find_existing_face as a function of its inputs: the file holds any one *)
(* or two entries, of any of the lengths, and any vector is looked up.    *)

MatchFiles ==
    { Present(to_string_pretty(<< FaceEntry_new(v, b, new_v4(0)) >>)) :
         v \in FeatureVectors, b \in BOOLEAN }
    \cup
    { Present(to_string_pretty(<< FaceEntry_new(v, TRUE, new_v4(0)),
                                  FaceEntry_new(w, FALSE, new_v4(1)) >>)) :
         v \in FeatureVectors, w \in FeatureVectors }

InitMatch ==
    /\ file \in MatchFiles
    /\ pc = "call"
    /\ Idle
    /\ uuids = 0
    /\ readable = TRUE
    /\ aborted = {}
    /\ savers = <<>>

\* let existing_face = find_existing_face(&feats)
FindCall(feats) ==
    /\ pc = "call"
    /\ \E found \in { find_existing_face(file, feats) } :
          /\ existing_face' = found
          /\ outcome' = IF found # <<>> THEN "Matched" ELSE "Unmatched"
          /\ access_allowed' = IF found # <<>> THEN found[1].allowed ELSE TRUE
    /\ features' = feats
    /\ pc' = "return"
    /\ UNCHANGED <<file, uuids, response, readable, aborted, savers>>

NextMatch == \E feats \in FeatureVectors : FindCall(feats)

SpecMatch == InitMatch /\ [][NextMatch]_vars

---------------------------------------------------------------------------
(* save_face_data in two processes at once: two runs of the program, each *)
(* past its prompt, on the same ./face_data.json. Each call is three      *)
(* steps: the load (with push and to_string_pretty), File::create, which  *)
(* truncates, and write_all, which writes at offset 0 of its own handle.  *)

Procs == {1, 2}

Other(p) == 3 - p

\* the entries the two processes save, and the store they start on
SaveEntries(p) ==
    { FaceEntry_new(Features[face], b, new_v4(p - 1)) :
         face \in {<<153, 153, 0>>, <<0, 0, 255>>}, b \in BOOLEAN }

SaveFiles ==
    { Present(to_string_pretty(<<>>)),
      Present(to_string_pretty(
         << FaceEntry_new(Features[<<204, 255, 153>>], TRUE, new_v4(2)) >>)) }

Saver(entry) ==
    [pc |-> "start", entry |-> entry, data |-> <<>>, alone |-> TRUE]

InitSave ==
    /\ file \in SaveFiles
    /\ pc = "save"
    /\ Idle
    /\ uuids = 3
    /\ readable = TRUE
    /\ aborted = {}
    /\ \E e1 \in SaveEntries(1), e2 \in SaveEntries(2) :
          savers = [of |-> << Saver(e1), Saver(e2) >>,
                    before |-> load_face_data(file)]

\* process p takes a step of its call, to position to, with data loaded:
\* the call has run alone so far if the other call is not under way
Step(p, to, loaded) ==
    savers' = [savers EXCEPT
       !.of[p].pc = to,
       !.of[p].data = loaded,
       !.of[p].alone = @ /\ savers.of[Other(p)].pc \in {"start", "done"}]

\* mutant: the entries are taken from what the process read at its start
SaverLoadStale(p) ==
    /\ savers.of[p].pc = "start"
    /\ Step(p, "loaded", Append(savers.before, savers.of[p].entry))
    /\ UNCHANGED <<file, pc, features, outcome, existing_face, access_allowed,
                   uuids, response, readable, aborted>>

\* let mut data = load_face_data(); data.push(entry.clone());
SaverLoad(p) ==
    /\ savers.of[p].pc = "start"
    /\ Step(p, "loaded", Append(load_face_data(file), savers.of[p].entry))
    /\ UNCHANGED <<file, pc, features, outcome, existing_face, access_allowed,
                   uuids, response, readable, aborted>>

\* File::create(DATABASE): the file is truncated
SaverCreate(p) ==
    /\ savers.of[p].pc = "loaded"
    /\ Step(p, "created", savers.of[p].data)
    /\ file' = Present(<<>>)
    /\ UNCHANGED <<pc, features, outcome, existing_face, access_allowed,
                   uuids, response, readable, aborted>>

\* text written at offset 0 over what the file holds
Overwrite(content, text) ==
    text \o SubSeq(content, Len(text) + 1, Len(content))

\* file.write_all(json_data.as_bytes())
SaverWrite(p) ==
    /\ savers.of[p].pc = "created"
    /\ Step(p, "done", savers.of[p].data)
    /\ file' = Present(Overwrite(file.content,
                                 to_string_pretty(savers.of[p].data)))
    /\ UNCHANGED <<pc, features, outcome, existing_face, access_allowed,
                   uuids, response, readable, aborted>>

NextSave ==
    \/ \E p \in Procs : SaverLoad(p)
    \/ \E p \in Procs : SaverCreate(p)
    \/ \E p \in Procs : SaverWrite(p)

SpecSave == InitSave /\ [][NextSave]_vars

---------------------------------------------------------------------------
(* Properties *)

\* the entries a load of the file returns
Store == load_face_data(file)

IsPrefix(s, t) == Len(s) <= Len(t) /\ SubSeq(t, 1, Len(s)) = s

\* x > 9/10 as real numbers, for a binary32 value x
ExceedsNineTenths(x) ==
    IF IsNaN(x) \/ IsZero(x) THEN FALSE
    ELSE IF IsInf(x) \/ x[2] >= 0 THEN TRUE
    ELSE IF x[2] < -27 THEN FALSE
    ELSE 10 * x[1] > 9 * Pow2(-x[2])

\* the step handles a detected face: the loop leaves its place between two
\* faces, or comes back to it, and it is neither ESC nor the environment
CallStep ==
    /\ pc = "loop"
    /\ pc' # "exited"
    /\ readable' = readable
    /\ vars' # vars

\* the step is a lookup of the embedding of the face handled before it
SameFaceAgain ==
    /\ CallStep
    /\ pc' \in {"loop", "prompt"}
    /\ features' = features

\* the step is an enrollment whose save succeeded
Enrolled == pc = "prompt" /\ pc' = "loop"

\* C1 as claimed: after an enrollment with decision D, the next lookup of
\* the same embedding is Matched with decision D and writes nothing.
C1_EnrollmentPersists ==
    [][(outcome = "Unmatched" /\ SameFaceAgain)
          => (outcome' = "Matched" /\ access_allowed' = access_allowed
                 /\ file' = file)]_vars

\* C1 holds for every embedding whose magnitude is not zero: the all-zero
\* embedding, which cosine_similarity compares as NaN, is the only one that
\* is enrolled a second time.
C1_EnrollmentPersistsNonZero ==
    [][(outcome = "Unmatched" /\ SameFaceAgain /\ ~IsZero(mag(features)))
          => (outcome' = "Matched" /\ access_allowed' = access_allowed
                 /\ file' = file)]_vars

\* a lookup was Matched by the entry enrolled last, which holds exactly the
\* embedding looked up
C1_Witness ==
    /\ pc = "loop" /\ outcome = "Matched"
    /\ existing_face = << Store[Len(Store)] >>
    /\ existing_face[1].features = features
    /\ existing_face[1].allowed

\* C2 as claimed: a lookup while the file is missing does not fail, it goes
\* to the Unmatched path.
C2_MissingFileIsEmptyStore ==
    [][(pc = "loop" /\ ~file.exists /\ pc' # "exited")
          => (pc' = "prompt" /\ outcome' = "Unmatched")]_vars

\* C3: after a successful append, a load returns what a load returned
\* before it, in the same order, with the appended entry at the end.
C3_RoundTrip ==
    [][Enrolled =>
          load_face_data(file') =
             Append(load_face_data(file),
                    [id |-> new_v4(uuids), features |-> features,
                     allowed |-> access_allowed'])]_vars

\* an entry was appended behind an entry with another embedding and the
\* other decision
C3_Witness ==
    /\ pc = "loop" /\ outcome = "Unmatched"
    /\ Len(Store) = 2
    /\ Store[2].features = features /\ Store[1].features # features
    /\ Store[2].allowed /\ ~Store[1].allowed

\* the indexes of the stored entries the embedding matches
Hits == { i \in DOMAIN Store : Matches[Store[i].features][features] }

\* C4: a Matched lookup returns the matching entry of lowest index, and the
\* decision is that entry's.
C4_FirstMatch ==
    outcome = "Matched" =>
       /\ Hits # {}
       /\ \A i \in Hits :
             (\A j \in Hits : i <= j) =>
                 /\ existing_face = << Store[i] >>
                 /\ access_allowed = Store[i].allowed

\* two stored entries match the embedding, the later one is the more
\* similar and holds the opposite decision
C4_Witness ==
    /\ outcome = "Matched"
    /\ \E i \in Hits : \E j \in Hits :
          /\ i < j
          /\ Store[i].allowed # Store[j].allowed
          /\ F32Gt(Similarity[Store[j].features][features],
                   Similarity[Store[i].features][features])

\* C5: the entry a lookup returns has similarity above 9/10, and when the
\* lookup returns none, no stored entry has similarity above 9/10.
C5_StrictThreshold ==
    /\ outcome = "Matched" =>
          ExceedsNineTenths(Similarity[existing_face[1].features][features])
    /\ pc = "prompt" =>
          \A i \in DOMAIN Store :
             ~ExceedsNineTenths(Similarity[Store[i].features][features])

\* a lookup returned none although a stored entry has similarity exactly
\* 0.9 (the f32 nearest to it)
C5_Witness ==
    /\ pc = "prompt"
    /\ \E i \in DOMAIN Store :
          Similarity[Store[i].features][features] = Threshold

\* C6: a Matched lookup writes nothing, and the lookup of the same
\* embedding right after it is Matched again, by the same entry, with the
\* same decision.
C6_IdempotentLookup ==
    [][/\ (pc' = "loop" /\ outcome' = "Matched") => file' = file
       /\ (outcome = "Matched" /\ SameFaceAgain)
             => /\ outcome' = "Matched"
                /\ access_allowed' = access_allowed
                /\ existing_face' = existing_face]_vars

\* a denial was returned from a full store
C6_Witness ==
    /\ pc = "loop" /\ outcome = "Matched"
    /\ ~access_allowed
    /\ Len(Store) = MaxFaces

\* C7 as claimed: every lookup, the fatal case of a file that is there but
\* cannot be read apart, ends Matched (an entry found, nothing written) or
\* Unmatched (none found, waiting for the decision), never both; an enrollment whose save succeeds adds exactly one entry, which
\* holds the embedding and the decision.
C7_EveryCallTerminal ==
    [][/\ (CallStep /\ (file.exists => readable))
             => \/ /\ outcome' = "Matched" /\ pc' = "loop"
                   /\ existing_face' # <<>> /\ file' = file
                \/ /\ outcome' = "Unmatched" /\ pc' = "prompt"
                   /\ existing_face' = <<>> /\ file' = file
       /\ Enrolled
             => /\ outcome' = "Unmatched"
                /\ Len(load_face_data(file')) = Len(load_face_data(file)) + 1
                /\ load_face_data(file')[Len(load_face_data(file'))].features
                      = features
                /\ load_face_data(file')[Len(load_face_data(file'))].allowed
                      = access_allowed']_vars

\* C7 holds for every lookup that load_face_data lets return: only the
\* panic on a missing file keeps a lookup from both terminal states.
C7_OneTerminalState ==
    [][/\ (CallStep /\ pc' \in {"loop", "prompt"})
             => \/ /\ outcome' = "Matched" /\ pc' = "loop"
                   /\ existing_face' # <<>> /\ file' = file
                \/ /\ outcome' = "Unmatched" /\ pc' = "prompt"
                   /\ existing_face' = <<>> /\ file' = file
       /\ Enrolled
             => /\ outcome' = "Unmatched"
                /\ Len(load_face_data(file')) = Len(load_face_data(file)) + 1
                /\ load_face_data(file')[Len(load_face_data(file'))].features
                      = features
                /\ load_face_data(file')[Len(load_face_data(file'))].allowed
                      = access_allowed']_vars

\* a denial was enrolled behind another entry
C7_Witness ==
    /\ pc = "loop" /\ outcome = "Unmatched"
    /\ Len(Store) = 2
    /\ Store[2].features = features
    /\ ~access_allowed /\ ~Store[2].allowed

\* C8 as claimed: what a load returns at one point is a prefix of what it
\* returns at every later point.
C8_AppendOnly == [][IsPrefix(load_face_data(file), load_face_data(file'))]_vars

\* C9 as claimed: an entry whose embedding has another length than the
\* query, or a pair with a zero magnitude, is never returned as a match.
C9_InvalidInputNeverMatches ==
    outcome = "Matched" =>
       /\ Len(existing_face[1].features) = Len(features)
       /\ ~IsZero(mag(existing_face[1].features))
       /\ ~IsZero(mag(features))

\* the ids Uuid::new_v4 has returned so far
Generated == { new_v4(k) : k \in 0..(uuids - 1) }

\* no two entries of data have the same id
UniqueIds(data) ==
    \A i \in DOMAIN data : \A j \in DOMAIN data :
       data[i].id = data[j].id => i = j

\* an entry of new that is not at its place in old has an id never
\* generated before
FreshIds(old, new) ==
    \A i \in DOMAIN new :
       \/ i \in DOMAIN old /\ new[i] = old[i]
       \/ new[i].id \notin Generated

\* C10: no two stored entries have the same id, and an entry that is new
\* in the store never has an id that was generated for an earlier entry.
C10_UniqueIds ==
    /\ [] UniqueIds(load_face_data(file))
    /\ [][\/ file' = file
          \/ FreshIds(load_face_data(file), load_face_data(file'))]_vars

\* a full store none of whose ids is the first id generated: the store was
\* lost to a failed write and filled again
C10_Witness ==
    /\ Len(Store) = MaxFaces
    /\ \A i \in DOMAIN Store : Store[i].id # new_v4(0)

\* the file is there and can be read, and its text is not a sequence of
\* entries
Corrupt == CanLoad /\ ~from_str(file.content).ok

\* C11: while the text of the file does not parse, a load returns no entry,
\* every lookup is Unmatched and leaves the file alone, and a successful
\* enrollment leaves a file that holds the new entry and nothing else.
C11_CorruptStoreRecovery ==
    /\ [](Corrupt => Store = <<>>)
    /\ [][(Corrupt /\ CallStep)
             => (pc' = "prompt" /\ outcome' = "Unmatched" /\ file' = file)]_vars
    /\ [][(Corrupt /\ Enrolled)
             => Present(to_string_pretty(
                   << [id |-> new_v4(uuids), features |-> features,
                       allowed |-> access_allowed'] >>)) = file']_vars

\* a lookup found nothing in a file that holds the text of a whole entry
\* but not the end of the array
C11_Witness ==
    /\ pc = "prompt" /\ outcome = "Unmatched"
    /\ Corrupt
    /\ \E i \in DOMAIN file.content : file.content[i].k = "num"

\* the file is there and cannot be opened or read
Unreadable == file.exists /\ ~readable

\* the step is the end of a prompt: the line has arrived and save_face_data
\* has run
AppendStep == pc = "prompt" /\ pc' # "prompt"

C13_FailedWriteNotCommitted ==
    /\ [](\A i \in DOMAIN Store : Store[i].id \notin aborted)
    /\ [][aborted' # aborted => pc' = "panicked"]_vars

\* write_all has failed with everything but the last token in the file:
\* the text of the entry is there, and a load does not return the entry
C13_Witness ==
    /\ pc = "panicked"
    /\ uuids > 0 /\ new_v4(uuids - 1) \in aborted
    /\ \E i \in DOMAIN file.content : file.content[i] = Str(new_v4(uuids - 1))
    /\ \E i \in DOMAIN file.content : file.content[i].k = "lit"

\* both calls of save_face_data have returned
BothDone == \A p \in Procs : savers.of[p].pc = "done"

\* no step of either call was taken while the other call was under way
Serialized == \A p \in Procs : savers.of[p].alone

\* the entry process p saved is in the store
Kept(p) == \E i \in DOMAIN Store : Store[i] = savers.of[p].entry

\* C14: when both calls have returned and their steps were not interleaved,
\* the store holds what it held before and both entries; a store that has
\* lost one of them comes from interleaved steps only (the witness shows
\* that it does come).
C14_LostUpdate ==
    (BothDone /\ Serialized) =>
       /\ Kept(1) /\ Kept(2)
       /\ Len(Store) = Len(savers.before) + 2
       /\ IsPrefix(savers.before, Store)

\* both calls have returned, and the store holds the entry of the call that
\* wrote last and not the entry of the other
C14_Witness ==
    /\ BothDone
    /\ from_str(file.content).ok
    /\ Len(Store) = Len(savers.before) + 1
    /\ \E p \in Procs : Kept(p) /\ ~Kept(Other(p))

\* what the loop holds and what it has written, the environment's flag apart
Progress == <<file, pc, features, outcome, existing_face, access_allowed,
              uuids, response, aborted>>

\* C15: while the loop waits in read_line nothing is handled and nothing
\* is written, and the wait ends in one way only, by the line that arrives
\* (to the loop with the entry saved, or to the panic of save_face_data);
\* when the line does arrive in the end, every wait ends.
C15_BlockingEnrollment ==
    /\ [][pc = "prompt" =>
             \/ pc' = "prompt" /\ Progress' = Progress
             \/ pc' \in {"loop", "panicked"} /\ uuids' = uuids + 1]_vars
    /\ (pc = "prompt") ~> (pc \in {"loop", "panicked"})

\* the loop waits for the line, with an entry in the store
C15_Witness ==
    /\ pc = "prompt" /\ outcome = "Unmatched"
    /\ response = <<>>
    /\ Store # <<>>

\* the affirmative answer: one j, small or capital, with nothing but white
\* space around it
AffirmativeAnswer(line) ==
    \E i \in DOMAIN line :
       /\ line[i] \in {"j", "J"}
       /\ \A n \in DOMAIN line : n # i => line[n] \in {" ", "\t", "\n", "\r"}

\* C16: the entry an enrollment stores holds 'allowed' when the line read
\* is the affirmative answer, and 'not allowed' for every other line.
C16_DefaultDeny ==
    [][Enrolled =>
          /\ load_face_data(file') # <<>>
          /\ load_face_data(file')[Len(load_face_data(file'))].allowed
                = AffirmativeAnswer(response')
          /\ access_allowed' = AffirmativeAnswer(response')]_vars

\* the answer "ja" was read and the entry is stored as a denial
C16_Witness ==
    /\ pc = "loop" /\ outcome = "Unmatched"
    /\ response = <<"j", "a", "\n">>
    /\ Store # <<>>
    /\ ~Store[Len(Store)].allowed

\* C17 as claimed: when save_face_data panics, at whichever step, the next
\* load returns what the load before the append returned.
C17_FailedAppendKeepsStore ==
    [][(pc = "prompt" /\ pc' = "panicked")
          => load_face_data(file') = load_face_data(file)]_vars

\* C18: no stored entry has similarity above 9/10 to an entry stored before
\* it (NaN, the similarity of a zero vector, is not above it), so two
\* stored entries hold the same embedding only when it is the zero vector.
C18_NoStoredMatch ==
    \A i \in DOMAIN Store : \A j \in DOMAIN Store :
       i < j =>
          /\ ~ExceedsNineTenths(
                 Similarity[Store[i].features][Store[j].features])
          /\ Store[i].features = Store[j].features
                => IsZero(mag(Store[j].features))

\* the second entry was enrolled with similarity exactly 0.9 (the f32
\* nearest to it) to the first, which is not above the threshold
C18_Witness ==
    /\ pc = "loop" /\ outcome = "Unmatched"
    /\ Len(Store) = 2
    /\ Store[2].features = features
    /\ Similarity[Store[1].features][Store[2].features] = Threshold

=============================================================================
